---- MODULE Spec2Model ----
(***************************************************************************)
(* Model of PagesTable (mediawiki_handler/mediawiki_tables.py): the        *)
(* translation of a parsed SELECT / INSERT into calls on the MediaWiki     *)
(* transport, and of the fetched pages into rows.                          *)
(*                                                                         *)
(* One behaviour of the model is one call of select() or insert().  The    *)
(* transport is the environment: every remote call either returns or       *)
(* raises, and a fetched page object answers each attribute read with a    *)
(* value or with an exception.  Python's None is the empty tuple <<>> and  *)
(* a present value v is <<v>>.                                             *)
(***************************************************************************)
EXTENDS Integers, Sequences, FiniteSets, TLC

(* ---------------------------- bounds ----------------------------------- *)
MaxConds == 2      \* WHERE conditions per SELECT
MaxLimit == 2      \* largest explicit LIMIT
MaxResults == 2    \* pages the remote wiki can return for one request
MaxMissing == 2    \* anomalous attribute reads per unfiltered select
MaxRows == 2       \* rows per INSERT

(* ---------------------------- inputs ----------------------------------- *)
TitleValues == {"A", "B"}
PageIdValues == {7}
Operators == {"=", ">"}
OtherColumns == {"url"}
RemoteErrorKinds == {"KeyError", "ConnectionError"}
ContentValues == {"c1", "c2"}
SummaryValues == {"s1", "s2"}
InsertColumns == {"title", "content", "summary"}

None == <<>>
Some(v) == <<v>>

\* a parsed WHERE condition is the triple (operator, column, value)
Conditions ==
  {<<o, "title", v>> : o \in Operators, v \in TitleValues}
    \cup {<<o, "pageid", v>> : o \in Operators, v \in PageIdValues}
    \cup {<<o, c, "x">> : o \in Operators, c \in OtherColumns}

WhereLists == UNION {[1..n -> Conditions] : n \in 0..MaxConds}

Limits == {None} \cup {Some(n) : n \in 1..MaxLimit}

ValuesOf(column) ==
  IF column = "title" THEN TitleValues
  ELSE IF column = "content" THEN ContentValues
  ELSE SummaryValues

\* the rows of one INSERT all carry the columns of its column list
RowsOver(columns) ==
  {r \in [columns -> TitleValues \cup ContentValues \cup SummaryValues] :
     \A c \in columns : r[c] \in ValuesOf(c)}

InsertLists ==
  UNION {UNION {[1..n -> RowsOver(columns)] : n \in 0..MaxRows} :
         columns \in SUBSET InsertColumns \ {{}}}

(* ---------------------------- errors ----------------------------------- *)
NoError == [kind |-> "none", origin |-> "none", call |-> "", msg |-> ""]

LocalError(kind, msg) ==
  [kind |-> kind, origin |-> "local", call |-> "", msg |-> msg]

RemoteError(kind, call, what) ==
  [kind |-> kind, origin |-> "remote", call |-> call, msg |-> what]

(* ---------------------------- schema ----------------------------------- *)
get_columns ==
  <<"pageid", "title", "original_title", "content", "summary", "url",
    "categories">>

Columns == {get_columns[i] : i \in 1..Len(get_columns)}

(* ------------------------ SELECTQueryParser ---------------------------- *)
DefaultLimit == 20

parse_limit_clause(limit) == IF limit = None THEN DefaultLimit ELSE limit[1]

(* -------------------- validate_where_conditions ------------------------ *)
UnsupportedOperator(condition) ==
  LocalError("ValueError",
             "Unsupported operator '" \o condition[1] \o "' for column '"
               \o condition[2] \o "' in WHERE clause.")

UnsupportedColumn(condition) ==
  LocalError("ValueError",
             "Unsupported column '" \o condition[2] \o "' in WHERE clause.")

RECURSIVE validate_loop(_, _, _, _)
validate_loop(conditions, i, title, page_id) ==
  IF i > Len(conditions)
  THEN [error |-> NoError, title |-> title, page_id |-> page_id]
  ELSE LET condition == conditions[i] IN
       IF condition[2] = "title"
       THEN IF condition[1] /= "="
            THEN [error |-> UnsupportedOperator(condition),
                  title |-> title, page_id |-> page_id]
            ELSE validate_loop(conditions, i + 1, Some(condition[3]), page_id)
       ELSE IF condition[2] = "pageid"
       THEN IF condition[1] /= "="
            THEN [error |-> UnsupportedOperator(condition),
                  title |-> title, page_id |-> page_id]
            ELSE validate_loop(conditions, i + 1, title, Some(condition[3]))
       ELSE [error |-> UnsupportedColumn(condition),
             title |-> title, page_id |-> page_id]

\* variant: the loop starts at the second condition
validate_where_conditions_skip_first(conditions) ==
  validate_loop(conditions, 2, None, None)

validate_where_conditions(conditions) ==
  validate_loop(conditions, 1, None, None)

(* ----------------------------- get_pages ------------------------------- *)
\* variant: the title fragment is written 'title:' instead of 'intitle:'
query_parts_title_prefix(title, page_id) ==
  (IF title /= None THEN <<"title:" \o title[1]>> ELSE <<>>)
    \o (IF page_id /= None THEN <<"pageid:" \o ToString(page_id[1])>>
        ELSE <<>>)

query_parts(title, page_id) ==
  (IF title /= None THEN <<"intitle:" \o title[1]>> ELSE <<>>)
    \o (IF page_id /= None THEN <<"pageid:" \o ToString(page_id[1])>>
        ELSE <<>>)

RECURSIVE join(_, _)
join(sep, parts) ==
  IF parts = <<>> THEN ""
  ELSE IF Len(parts) = 1 THEN parts[1]
  ELSE parts[1] \o sep \o join(sep, Tail(parts))

\* variant: the fragments are joined without the separator
search_query_unseparated(title, page_id) ==
  join("", query_parts(title, page_id))

search_query(title, page_id) == join(" | ", query_parts(title, page_id))

\* variant: the test on the search term is inverted
use_search_inverted(term) == term = ""

\* `if search_query:` -- a string is true when it is not empty
use_search(term) == term /= ""

\* variant: the limit is not passed on and the library default applies
fetch_count_library_default(limit) == 10

\* the count handed to search(results=...) / random(pages=...)
fetch_count(limit) == limit

\* variant: the results are visited last to first
nth_result_reversed(results, i) == results[Len(results) - i + 1]

\* the result the list comprehension visits in its i-th iteration
nth_result(results, i) == results[i]

(* ------------------------ convert_page_to_dict ------------------------- *)
Ok == [cause |-> "ok", kind |-> "none"]

\* how one attribute read of a page object can go wrong: the object has no
\* such attribute (getattr raises AttributeError), the attribute is computed
\* from a response that lacks the field (KeyError), or the read needs a
\* remote request and that request fails
Anomalies ==
  {[cause |-> "lacks", kind |-> k] : k \in {"KeyError", "AttributeError"}}
    \cup {[cause |-> "remote", kind |-> k] : k \in RemoteErrorKinds}

attribute_read_error(attribute, outcome) ==
  IF outcome.cause = "remote"
  THEN RemoteError(outcome.kind, "getattr", attribute)
  ELSE LocalError(outcome.kind, attribute)

\* variant: `except Exception` instead of `except KeyError`
caught_any(outcome) == TRUE

\* except KeyError: skip the attribute
caught(outcome) == outcome.kind = "KeyError"

RECURSIVE convert_loop(_, _, _)
convert_loop(page, i, result) ==
  IF i > Len(get_columns)
  THEN [error |-> NoError, result |-> result, read |-> i - 1]
  ELSE LET attribute == get_columns[i]
           outcome == page.attrs[attribute]
       IN IF outcome = Ok
          THEN convert_loop(page, i + 1,
                 [a \in DOMAIN result \cup {attribute} |->
                    IF a = attribute THEN <<page.id, attribute>>
                    ELSE result[a]])
          ELSE IF caught(outcome)
          THEN convert_loop(page, i + 1, result)
          ELSE [error |-> attribute_read_error(attribute, outcome),
                result |-> result, read |-> i]

convert_page_to_dict(page) == convert_loop(page, 1, <<>>)

(* --------------------------- transport --------------------------------- *)
NoPayload == [title |-> "", text |-> "", summary |-> "", headers |-> ""]

Call(name, term, n, page, auto_suggest, payload) ==
  [name |-> name, term |-> term, n |-> n, page |-> page,
   auto_suggest |-> auto_suggest, payload |-> payload]

PageIds == 1..MaxResults

Min(a, b) == IF a < b THEN a ELSE b

\* what search / random may return when asked for n results: at most n
\* distinct pages of the wiki
ResultLists(n) ==
  {r \in UNION {[1..k -> PageIds] : k \in 0..Min(n, MaxResults)} :
     \A i, j \in 1..Len(r) : i /= j => r[i] /= r[j]}

NoPage == [id |-> 0, attrs |-> [a \in Columns |-> Ok]]

Missing(rowlist, i) == Cardinality(Columns) - Cardinality(DOMAIN rowlist[i])

RECURSIVE MissingTotal(_, _)
MissingTotal(rowlist, i) ==
  IF i > Len(rowlist) THEN 0
  ELSE Missing(rowlist, i) + MissingTotal(rowlist, i + 1)

\* the page objects page(id) may return, with at most b anomalous attributes
PageObjects(id, b) ==
  UNION {{[id |-> id,
           attrs |-> [a \in Columns |-> IF a \in S THEN g[a] ELSE Ok]] :
            g \in [S -> Anomalies]} :
         S \in {T \in SUBSET Columns : Cardinality(T) <= b}}

(* ----------------------------- state ----------------------------------- *)
VARIABLES
  pc,            \* position in select() / insert()
  op,            \* the parsed query being executed
  title,         \* title filter after validation (None or Some)
  page_id,       \* pageid filter after validation (None or Some)
  result_limit,  \* limit returned by the parser
  calls,         \* transport calls issued so far, in order
  results,       \* list returned by search() / random()
  idx,           \* results visited by the list comprehension
  page,          \* page object last returned by page()
  rows,          \* dicts produced by convert_page_to_dict so far
  returned,      \* rows of the DataFrame select() returned
  raised,        \* exception that ended the operation
  failures,      \* history: failures of remote calls, in order
  payload        \* argument insert() hands to call_application_api

vars ==
  <<pc, op, title, page_id, result_limit, calls, results, idx, page, rows,
    returned, raised, failures, payload>>

NoOp == [kind |-> "none", where |-> <<>>, limit |-> None, values |-> <<>>]

Init ==
  /\ pc = "idle"
  /\ op = NoOp
  /\ title = None
  /\ page_id = None
  /\ result_limit = 0
  /\ calls = <<>>
  /\ results = <<>>
  /\ idx = 0
  /\ page = NoPage
  /\ rows = <<>>
  /\ returned = <<>>
  /\ raised = NoError
  /\ failures = <<>>
  /\ payload = NoPayload

(* ----------------------------- select ---------------------------------- *)
\* select(): SELECTQueryParser(...).parse_query()
SelectParse ==
  /\ pc = "idle"
  /\ \E w \in WhereLists, l \in Limits :
       /\ op' = [kind |-> "select", where |-> w, limit |-> l,
                 values |-> <<>>]
       /\ result_limit' = parse_limit_clause(l)
  /\ pc' = "validate"
  /\ UNCHANGED <<title, page_id, calls, results, idx, page, rows, returned,
                 raised, failures, payload>>

\* select(): title, page_id = self.validate_where_conditions(...)
SelectValidate ==
  /\ pc = "validate"
  /\ LET v == validate_where_conditions(op.where) IN
       IF v.error /= NoError
       THEN /\ raised' = v.error
            /\ pc' = "failed"
            /\ UNCHANGED <<title, page_id>>
       ELSE /\ title' = v.title
            /\ page_id' = v.page_id
            /\ pc' = "get_pages"
            /\ UNCHANGED raised
  /\ UNCHANGED <<op, result_limit, calls, results, idx, page, rows, returned,
                 failures, payload>>

Fail(err) ==
  /\ raised' = err
  /\ failures' = Append(failures, err)
  /\ pc' = "failed"

\* get_pages(): connection = self.handler.connect()
GetPagesConnect ==
  /\ pc = "get_pages"
  /\ calls' = Append(calls, Call("connect", "", 0, 0, FALSE, NoPayload))
  /\ \/ /\ pc' = "connected"
        /\ UNCHANGED <<raised, failures>>
     \/ \E k \in RemoteErrorKinds : Fail(RemoteError(k, "connect", ""))
  /\ UNCHANGED <<op, title, page_id, result_limit, results, idx, page, rows,
                 returned, payload>>

\* get_pages(): connection.search(search_query, results=limit)
GetPagesSearch ==
  /\ pc = "connected"
  /\ use_search(search_query(title, page_id))
  /\ calls' = Append(calls, Call("search", search_query(title, page_id),
                                 fetch_count(result_limit), 0, FALSE,
                                 NoPayload))
  /\ \/ /\ results' \in ResultLists(fetch_count(result_limit))
        /\ pc' = "iterate"
        /\ UNCHANGED <<raised, failures>>
     \/ /\ \E k \in RemoteErrorKinds : Fail(RemoteError(k, "search", ""))
        /\ UNCHANGED results
  /\ UNCHANGED <<op, title, page_id, result_limit, idx, page, rows, returned,
                 payload>>

\* get_pages(): connection.random(pages=limit)
GetPagesRandom ==
  /\ pc = "connected"
  /\ ~use_search(search_query(title, page_id))
  /\ calls' = Append(calls, Call("random", "", fetch_count(result_limit), 0,
                                 FALSE, NoPayload))
  /\ \/ /\ results' \in ResultLists(fetch_count(result_limit))
        /\ pc' = "iterate"
        /\ UNCHANGED <<raised, failures>>
     \/ /\ \E k \in RemoteErrorKinds : Fail(RemoteError(k, "random", ""))
        /\ UNCHANGED results
  /\ UNCHANGED <<op, title, page_id, result_limit, idx, page, rows, returned,
                 payload>>

\* get_pages(): connection.page(result, auto_suggest=False)
GetPagesPage ==
  /\ pc = "iterate"
  /\ idx < Len(results)
  /\ LET result == nth_result(results, idx + 1) IN
       /\ calls' = Append(calls, Call("page", "", 0, result, FALSE,
                                      NoPayload))
       /\ \/ /\ page' = [id |-> result, attrs |-> [a \in Columns |-> Ok]]
             /\ pc' = "convert"
             /\ UNCHANGED <<raised, failures>>
          \/ /\ \E k \in RemoteErrorKinds : Fail(RemoteError(k, "page", ""))
             /\ UNCHANGED page
  /\ UNCHANGED <<op, title, page_id, result_limit, results, idx, rows,
                 returned, payload>>

\* the remote-backed attribute reads among the first n that failed
RECURSIVE ReadFailures(_, _, _)
ReadFailures(p, i, n) ==
  IF i > n THEN <<>>
  ELSE (IF p.attrs[get_columns[i]].cause = "remote"
        THEN <<attribute_read_error(get_columns[i], p.attrs[get_columns[i]])>>
        ELSE <<>>) \o ReadFailures(p, i + 1, n)

\* anomalous attribute reads one select meets at most: the pages are
\* explored in depth on the unfiltered select without LIMIT, and with a
\* single anomaly on every other select
AnomalyBudget ==
  IF op.where = <<>> /\ op.limit = None THEN MaxMissing ELSE 1

\* get_pages(): self.convert_page_to_dict(<page>).  How the page object
\* answers its attribute reads shows only now; page records the answers to
\* the reads that were made.
GetPagesConvert ==
  /\ pc = "convert"
  /\ \E p \in PageObjects(page.id, AnomalyBudget - MissingTotal(rows, 1)) :
       LET c == convert_page_to_dict(p) IN
         /\ \A i \in (c.read + 1)..Len(get_columns) :
              p.attrs[get_columns[i]] = Ok
         /\ page' = p
         /\ failures' = failures \o ReadFailures(p, 1, c.read)
         /\ IF c.error /= NoError
            THEN /\ raised' = c.error
                 /\ pc' = "failed"
                 /\ UNCHANGED <<rows, idx>>
            ELSE /\ rows' = Append(rows, c.result)
                 /\ idx' = idx + 1
                 /\ pc' = "iterate"
                 /\ UNCHANGED raised
  /\ UNCHANGED <<op, title, page_id, result_limit, calls, results, returned,
                 payload>>

\* SELECTQueryExecutor.execute_query(): no WHERE conditions are handed to
\* it, and projection and ordering neither add nor drop rows
execute_query(df) == df

\* select(): json_normalize, SELECTQueryExecutor, return pages_df
SelectExecute ==
  /\ pc = "iterate"
  /\ idx = Len(results)
  /\ returned' = execute_query(rows)
  /\ pc' = "done"
  /\ UNCHANGED <<op, title, page_id, result_limit, calls, results, idx, page,
                 rows, raised, failures, payload>>

(* ----------------------------- insert ---------------------------------- *)
RECURSIVE json_items(_, _)
json_items(list, i) ==
  IF i > Len(list) THEN <<>>
  ELSE <<"{\"" \o list[i][1] \o "\": \"" \o list[i][2] \o "\"}">>
         \o json_items(list, i + 1)

\* json.dumps of a list of one-entry dicts, each given as <<key, value>>
json_dumps(list) == "[" \o join(", ", json_items(list, 1)) \o "]"

Headers ==
  <<<<"Accept", "application/json">>,
    <<"Content-Type", "application/x-www-form-urlencoded">>>>

\* the keys the dict display reads from the row, in evaluation order
PayloadKeys == <<"title", "content", "summary">>

RECURSIVE first_missing(_, _)
first_missing(row, i) ==
  IF i > Len(PayloadKeys) THEN None
  ELSE IF PayloadKeys[i] \notin DOMAIN row THEN Some(PayloadKeys[i])
  ELSE first_missing(row, i + 1)

edit_payload(row) ==
  [title |-> row["title"], text |-> row["content"],
   summary |-> row["summary"], headers |-> json_dumps(Headers)]

\* insert(): INSERTQueryParser(...).parse_query()
InsertParse ==
  /\ pc = "idle"
  /\ \E v \in InsertLists :
       op' = [kind |-> "insert", where |-> <<>>, limit |-> None,
              values |-> v]
  /\ pc' = "insert"
  /\ UNCHANGED <<title, page_id, result_limit, calls, results, idx, page,
                 rows, returned, raised, failures, payload>>

\* insert(): if values_to_insert: row = values_to_insert[0]; build the
\* request dict and hand it to call_application_api('edit', ...)
InsertFirstRow ==
  /\ pc = "insert"
  /\ IF op.values = <<>>
     THEN /\ pc' = "done"
          /\ UNCHANGED <<raised, payload>>
     ELSE LET row == op.values[1]
              missing == first_missing(row, 1)
          IN IF missing /= None
             THEN /\ raised' = LocalError("KeyError", missing[1])
                  /\ pc' = "failed"
                  /\ UNCHANGED payload
             ELSE /\ payload' = edit_payload(row)
                  /\ pc' = "call_api"
                  /\ UNCHANGED raised
  /\ UNCHANGED <<op, title, page_id, result_limit, calls, results, idx, page,
                 rows, returned, failures>>

\* call_application_api('edit', payload): open the connection
CallApiConnect ==
  /\ pc = "call_api"
  /\ calls' = Append(calls, Call("connect", "", 0, 0, FALSE, NoPayload))
  /\ \/ /\ pc' = "edit"
        /\ UNCHANGED <<raised, failures>>
     \/ \E k \in RemoteErrorKinds : Fail(RemoteError(k, "connect", ""))
  /\ UNCHANGED <<op, title, page_id, result_limit, results, idx, page, rows,
                 returned, payload>>

\* call_application_api('edit', payload): the edit request
CallApiEdit ==
  /\ pc = "edit"
  /\ calls' = Append(calls, Call("edit", "", 0, 0, FALSE, payload))
  /\ \/ /\ pc' = "done"
        /\ UNCHANGED <<raised, failures>>
     \/ \E k \in RemoteErrorKinds : Fail(RemoteError(k, "edit", ""))
  /\ UNCHANGED <<op, title, page_id, result_limit, results, idx, page, rows,
                 returned, payload>>

Next ==
  \/ SelectParse
  \/ SelectValidate
  \/ GetPagesConnect
  \/ GetPagesSearch
  \/ GetPagesRandom
  \/ GetPagesPage
  \/ GetPagesConvert
  \/ SelectExecute
  \/ InsertParse
  \/ InsertFirstRow
  \/ CallApiConnect
  \/ CallApiEdit

Spec == Init /\ [][Next]_vars

(* ======================= properties ==================================== *)
TypeOK == pc \in {"idle", "validate", "get_pages", "connected", "iterate",
                  "convert", "done", "failed", "insert", "call_api",
                  "edit"}

Terminal == pc \in {"done", "failed"}

IsName(c, name) == c.name = name

CallsNamed(name) == SelectSeq(calls, LAMBDA c : IsName(c, name))

IsSelect == op.kind = "select"
IsInsert == op.kind = "insert"

\* the limit N of the query: the LIMIT clause, 20 when there is none
QueryLimit == IF op.limit = None THEN 20 ELSE op.limit[1]

\* a call after connect() has been issued, or the select has returned
PastConnect == pc = "done" \/ Len(calls) > 1

OnlyTitleFilter ==
  /\ IsSelect
  /\ Len(op.where) = 1
  /\ op.where[1][1] = "="
  /\ op.where[1][2] = "title"

\* C1: a select whose only WHERE condition is title = X issues exactly one
\* search call (once connect() has returned), with term 'intitle:X' and
\* results N, never calls random(), and returns at most N rows.
C1_TitleSearch ==
  OnlyTitleFilter =>
    /\ CallsNamed("random") = <<>>
    /\ Len(CallsNamed("search")) <= 1
    /\ \A i \in 1..Len(calls) :
         calls[i].name = "search" =>
           /\ calls[i].term = "intitle:" \o op.where[1][3]
           /\ calls[i].n = QueryLimit
    /\ PastConnect => Len(CallsNamed("search")) = 1
    /\ Len(rows) <= QueryLimit
    /\ Len(returned) <= QueryLimit

C1_Witness ==
  /\ OnlyTitleFilter
  /\ op.limit = Some(1)
  /\ pc = "done"
  /\ Len(returned) = 1
  /\ Len(CallsNamed("search")) = 1

\* C2: a select with no WHERE condition never calls search() and calls
\* random() exactly once (once connect() has returned) with pages equal to
\* the limit; random() is called only when no title and no pageid filter is
\* given.
C2_RandomFallback ==
  /\ (IsSelect /\ op.where = <<>>) =>
       /\ CallsNamed("search") = <<>>
       /\ Len(CallsNamed("random")) <= 1
       /\ \A i \in 1..Len(calls) :
            calls[i].name = "random" => calls[i].n = QueryLimit
       /\ PastConnect => Len(CallsNamed("random")) = 1
  /\ (IsSelect /\ CallsNamed("random") /= <<>>) =>
       \A i \in 1..Len(op.where) : op.where[i][2] \notin {"title", "pageid"}

C2_Witness ==
  /\ IsSelect
  /\ op.where = <<>>
  /\ op.limit = Some(2)
  /\ pc = "done"
  /\ Len(CallsNamed("random")) = 1
  /\ Len(returned) = 2

BadColumn(condition) == condition[2] \notin {"title", "pageid"}
BadOperator(condition) == ~BadColumn(condition) /\ condition[1] /= "="
BadCondition(condition) == BadColumn(condition) \/ BadOperator(condition)

HasBadCondition == \E i \in 1..Len(op.where) : BadCondition(op.where[i])

FirstBad ==
  op.where[CHOOSE i \in 1..Len(op.where) :
             /\ BadCondition(op.where[i])
             /\ \A j \in 1..(i - 1) : ~BadCondition(op.where[j])]

\* C3: a select with a WHERE condition on a column other than title/pageid,
\* or with an operator other than '=' on title/pageid, fails with a
\* ValueError naming the bad column / operator, and no transport call has
\* been made, wherever the bad condition stands.
C3_RejectedLocally ==
  (IsSelect /\ HasBadCondition) =>
    /\ calls = <<>>
    /\ pc \in {"validate", "failed"}
    /\ pc = "failed" =>
         /\ raised.kind = "ValueError"
         /\ raised.origin = "local"
         /\ BadColumn(FirstBad) =>
              raised.msg = "Unsupported column '" \o FirstBad[2]
                             \o "' in WHERE clause."
         /\ BadOperator(FirstBad) =>
              raised.msg = "Unsupported operator '" \o FirstBad[1]
                             \o "' for column '" \o FirstBad[2]
                             \o "' in WHERE clause."

C3_Witness ==
  /\ IsSelect
  /\ Len(op.where) = 2
  /\ ~BadCondition(op.where[1])
  /\ BadOperator(op.where[2])
  /\ pc = "failed"
  /\ calls = <<>>

\* the attributes a page object answers with a value
Present(p) == {a \in Columns : p.attrs[a] = Ok}

\* a page object whose only anomaly is that it lacks attributes
OnlyLacks(p) == \A a \in Columns : p.attrs[a].cause \in {"ok", "lacks"}

\* C4: converting a fetched page that lacks any subset of the seven
\* attributes never raises: its row is produced with exactly the attributes
\* the page has, and the remaining pages of the select are still converted.
C4_MissingAttributesSkipped ==
  /\ (IsSelect /\ page.id /= 0 /\ pc /= "convert" /\ OnlyLacks(page)) =>
       /\ raised.call /= "" \/ raised = NoError
       /\ idx >= 1
       /\ Len(rows) = idx
       /\ DOMAIN rows[idx] = Present(page)
  /\ (IsSelect /\ Terminal /\ failures = <<>> /\ calls /= <<>>) =>
       /\ pc = "done"
       /\ Len(returned) = Len(results)

FirstRowComplete ==
  /\ op.values /= <<>>
  /\ InsertColumns \subseteq DOMAIN op.values[1]

\* C5: an insert with a non-empty row list issues exactly one edit call,
\* carrying title, text (= content) and summary of the first row and the two
\* fixed headers; later rows reach no call; an insert with no rows issues no
\* edit call.
C5_OneEditCall ==
  (IsInsert /\ Terminal) =>
    /\ op.values = <<>> => calls = <<>>
    /\ (op.values /= <<>> /\ failures = <<>>) =>
         /\ Len(CallsNamed("edit")) = 1
         /\ CallsNamed("edit")[1].payload =
              [title |-> op.values[1]["title"],
               text |-> op.values[1]["content"],
               summary |-> op.values[1]["summary"],
               headers |->
                 "[{\"Accept\": \"application/json\"}, "
                   \o "{\"Content-Type\": "
                   \o "\"application/x-www-form-urlencoded\"}]"]

\* C6: a select without LIMIT asks the transport for 20 results, in
\* search(results=...) as well as in random(pages=...).
C6_DefaultLimit ==
  (IsSelect /\ op.limit = None) =>
    /\ \A i \in 1..Len(calls) :
         calls[i].name \in {"search", "random"} => calls[i].n = 20
    /\ PastConnect =>
         Len(CallsNamed("search")) + Len(CallsNamed("random")) = 1

C6_Witness ==
  /\ IsSelect
  /\ op.limit = None
  /\ op.where /= <<>>
  /\ pc = "done"
  /\ Len(CallsNamed("search")) = 1
  /\ CallsNamed("search")[1].n = 20

\* the filters a select gives, when no column is filtered twice
FilterOn(column) ==
  {op.where[i][3] : i \in {j \in 1..Len(op.where) : op.where[j][2] = column}}

DistinctFilters ==
  /\ IsSelect
  /\ ~HasBadCondition
  /\ Cardinality(FilterOn("title")) <= 1
  /\ Cardinality(FilterOn("pageid")) <= 1
  /\ \A i, j \in 1..Len(op.where) :
       i /= j => op.where[i][2] /= op.where[j][2]

TitleFragment == "intitle:" \o (CHOOSE v \in FilterOn("title") : TRUE)
PageIdFragment ==
  "pageid:" \o ToString(CHOOSE v \in FilterOn("pageid") : TRUE)

TermWith(separator) ==
  IF FilterOn("title") /= {} /\ FilterOn("pageid") /= {}
  THEN TitleFragment \o separator \o PageIdFragment
  ELSE IF FilterOn("title") /= {} THEN TitleFragment
  ELSE PageIdFragment

SearchTermIs(separator) ==
  (DistinctFilters /\ op.where /= <<>>) =>
    /\ CallsNamed("random") = <<>>
    /\ Len(CallsNamed("search")) <= 1
    /\ PastConnect => Len(CallsNamed("search")) = 1
    /\ \A i \in 1..Len(calls) :
         calls[i].name = "search" => calls[i].term = TermWith(separator)

\* C7 (as claimed): the search term is 'intitle:<title>', 'pageid:<id>', or
\* the title fragment followed by the pageid fragment joined with '|', and
\* nothing else; a single search call carries it.
C7_TermJoinedWithBarePipe == SearchTermIs("|")

\* C7 (amended): as claimed, except that the two fragments are joined with
\* ' | ', a pipe with one space on either side.
C7_TermJoinedWithSpacedPipe == SearchTermIs(" | ")

C7_Witness ==
  /\ IsSelect
  /\ op.where = <<<<"=", "pageid", 7>>, <<"=", "title", "A">>>>
  /\ pc = "done"
  /\ Len(CallsNamed("search")) = 1
  /\ CallsNamed("search")[1].term = "intitle:A | pageid:7"

\* C8: the only error select or insert raises locally is the ValueError for
\* an unsupported WHERE column or operator.
C8_OnlyUsageErrorLocal ==
  raised.origin = "local" => raised.kind = "ValueError"

\* C9 (as claimed): a failure of any remote call, whatever its error kind,
\* other than a page merely lacking an attribute, ends the operation with
\* that same failure, and the select returns no rows.
C9_EveryRemoteFailurePropagates ==
  (failures /= <<>> /\ \A a \in Columns : page.attrs[a].cause /= "lacks") =>
    /\ pc = "failed"
    /\ raised = failures[1]
    /\ returned = <<>>

Swallowed(f) == f.call = "getattr" /\ f.kind = "KeyError"

NotSwallowed(f) == ~Swallowed(f)

\* C9 (amended): a failure of a remote call ends the operation with that
\* same failure and the select returns no rows, except that a KeyError
\* raised by an attribute read of a fetched page is caught whatever its
\* cause: the attribute is left out and the select goes on.
C9_RemoteFailurePropagates ==
  /\ (Terminal /\ SelectSeq(failures, NotSwallowed) /= <<>>) =>
       /\ pc = "failed"
       /\ raised = SelectSeq(failures, NotSwallowed)[1]
       /\ returned = <<>>
  /\ (Terminal /\ failures /= <<>>
        /\ SelectSeq(failures, NotSwallowed) = <<>>) =>
       raised.origin /= "remote"
  /\ pc = "failed" => returned = <<>>

C9_Witness ==
  /\ IsSelect
  /\ pc = "failed"
  /\ raised.origin = "remote"
  /\ raised.call = "getattr"
  /\ raised.kind = "ConnectionError"
  /\ Len(rows) >= 1
  /\ \E i \in 1..Len(failures) : Swallowed(failures[i])
  /\ returned = <<>>

\* the transport calls an operation has made are in the order of the code
InOrder ==
  \A i \in 1..Len(calls) :
    /\ i = 1 => calls[i].name = "connect"
    /\ i = 2 => calls[i].name =
                  (IF IsInsert THEN "edit"
                   ELSE IF title = None /\ page_id = None THEN "random"
                   ELSE "search")
    /\ i > 2 =>
         /\ IsSelect
         /\ i - 2 <= Len(results)
         /\ calls[i].name = "page"
         /\ calls[i].page = results[i - 2]
         /\ calls[i].auto_suggest = FALSE

\* C10 (as claimed): each select and each insert opens exactly one
\* connection and then makes its remote calls one after the other: connect,
\* the single search or random call, one page() per result in result order
\* with auto_suggest off; connect before the single edit call.
C10_EveryOperationConnectsOnce ==
  Terminal =>
    /\ Len(CallsNamed("connect")) = 1
    /\ InOrder

\* C10 (amended): a select that passes validation opens exactly one
\* connection, then makes the single search or random call, then one page()
\* call per result in result order with auto_suggest off, up to the first
\* call that raises; a select rejected by validation makes no call.  An
\* insert opens its connection only for its edit call and right before it:
\* an insert that reaches no edit call (no rows, or a first row without
\* title, content or summary) opens none.
C10_SequentialCalls ==
  /\ InOrder
  /\ (IsSelect /\ pc = "done") => Len(calls) = 2 + Len(results)
  /\ (IsSelect /\ HasBadCondition) => calls = <<>>
  /\ (IsInsert /\ pc = "done") =>
       Len(calls) = (IF op.values = <<>> THEN 0 ELSE 2)
  /\ (IsInsert /\ Terminal /\ ~FirstRowComplete) => calls = <<>>
  /\ (Terminal /\ raised.origin = "remote") =>
       calls[Len(calls)].name = raised.call \/ raised.call = "getattr"

C10_Witness ==
  /\ IsSelect
  /\ pc = "done"
  /\ results = <<2, 1>>
  /\ Len(calls) = 4
  /\ calls[3].page = 2
  /\ calls[4].page = 1
====
